---- MODULE Spec2Model ----
(***************************************************************************)
(* Model of src/src/run.py: the Runner of a line-image recognition         *)
(* trainer.  Four specifications share this module:                        *)
(*   Spec        Runner.train, one step per epoch (lines 99-164)           *)
(*   SpecBatch   the batch loop inside an epoch, one step per batch        *)
(*               (lines 104-142)                                           *)
(*   SpecDecode  Runner.greedyDecode, one step per batch element           *)
(*               (lines 166-182)                                           *)
(*   SpecLabels  the flattening of the padded label matrix in train        *)
(*               (lines 106-113, 127) and in validate (lines 191-215)      *)
(* A specification leaves the variables of the other three at their idle   *)
(* values.                                                                 *)
(***************************************************************************)
EXTENDS Integers, Sequences, FiniteSets

VARIABLES
  \* ---- Runner.train, per epoch ----
  config,            \* self.config: the fields train reads
  pc,                \* "loop": in the for loop of line 99; "done": after it
  epoch,             \* the loop variable of line 99 (0 before the first epoch)
  stopped,           \* TRUE once the break of line 162 was taken
  bestValLoss,       \* self.bestValLoss
  bestValLossEpoch,  \* self.bestValLossEpoch
  weights,           \* the model parameters, named by the number of optimiser steps taken
  pending,           \* number of batches whose gradient is accumulated and not yet applied
  bestCkpt,          \* outDir/best_val_loss.pth: <<>> or <<[weights, writtenAt]>>
  epochCkpts,        \* the epochs e for which outDir/epoch_e.pth was written
  valLosses,         \* history: <<epoch, loss>> of every validate() call, in order
  weightsAtEnd,      \* history: weights at the end of each epoch's batch loop
  ckptWrites,        \* history: the epochs in which best_val_loss.pth was written
  \* ---- the batch loop, per batch ----
  loader,            \* [batchSize, datasetsize, epochs] of the run
  bpc,               \* "idle", "batches", "epochEnd", "done"
  bEpoch,            \* current epoch of the batch loop
  batchId,           \* index of the next batch of the enumerate of line 104
  grad,              \* the <<epoch, batchId>> whose gradient is accumulated in .grad
  applied,           \* history: <<epoch, batchId>> -> number of optimiser steps that used it
  stepsAfter,        \* history: the <<epoch, batchId>> after which optimiser.step() ran
  \* ---- greedyDecode ----
  max_index,         \* max_index[t][i]: arg-max class at time t of batch element i
  dpc,               \* "idle", "decoding", "returned"
  di,                \* the loop variable i of line 169 (1-based here)
  ll,                \* the list of results; a result is the index list given to decode
  recollapsed,       \* collapse applied once more to every returned index list
  \* ---- label flattening ----
  batch,             \* [width, t_len]: the padded label matrix's width and data["t_len"]
  lpc,               \* "idle", "batch", "trained", "validated", "aborted"
  encodedTranscription, \* the flat label tensor
  lossTargetLengths  \* the target lengths given to the loss with it

trainVars  == <<config, pc, epoch, stopped, bestValLoss, bestValLossEpoch, weights,
                pending, bestCkpt, epochCkpts, valLosses, weightsAtEnd, ckptWrites>>
batchVars  == <<loader, bpc, bEpoch, batchId, grad, applied, stepsAfter>>
decodeVars == <<max_index, dpc, di, ll, recollapsed>>
labelVars  == <<batch, lpc, encodedTranscription, lossTargetLengths>>
vars == <<trainVars, batchVars, decodeVars, labelVars>>

----------------------------------------------------------------------------
\* Bounds of the model.
MaxEpochs  == 6
MaxBatches == 7
MaxT       == 4
MaxWidth   == 3
MaxRows    == 2

\* Inputs drawn from small sets.
BatchSizes      == {1, 2}
LossValues      == {24, 25, 26, 30}      \* validation losses, in tenths
ValidationEpochs == {0, 1, 2}
Patiences       == {0, 1, 2}
Warmups         == {0, 1}
SaveEpochs      == {0, 2}
TrainSizes      == {1, MaxBatches}
Classes         == {0, 2, 5}
DecodeBatch     == {1, 2}

\* The accumulation window of line 131.
AccumulationWindow == 5

Min(a, b) == IF a < b THEN a ELSE b
Max(a, b) == IF a > b THEN a ELSE b

RECURSIVE SetMax(_)
SetMax(S) == IF S = {} THEN 0
             ELSE LET x == CHOOSE y \in S : TRUE IN Max(x, SetMax(S \ {x}))

\* float("inf") of line 93: above every loss validate can return.
Inf == SetMax(LossValues) + 1

----------------------------------------------------------------------------
\* Runner.train: the conditions of the epoch loop.

\* Lines 130-131 without the last-batch test, and with % 5 == 0.
ShouldStepNoLast(batchSize, batchIdx, datasetsize) ==
  IF batchSize = 1
  THEN batchIdx % AccumulationWindow = 4
  ELSE TRUE

ShouldStepMod0(batchSize, batchIdx, datasetsize) ==
  IF batchSize = 1
  THEN batchIdx % AccumulationWindow = 0 \/ batchIdx = datasetsize - 1
  ELSE TRUE

\* Lines 130-131: whether the optimiser steps after batch batchIdx.
ShouldStep(batchSize, batchIdx, datasetsize) ==
  IF batchSize = 1
  THEN batchIdx % AccumulationWindow = 4 \/ batchIdx = datasetsize - 1
  ELSE TRUE

\* Line 148.
ShouldSaveEpoch(e, cfg) ==
  e > 0 /\ cfg.modelSaveEpoch > 0 /\ e % cfg.modelSaveEpoch = 0

\* Line 151.
ShouldValidate(e, cfg) ==
  cfg.validationEpoch > 0 /\ e % cfg.validationEpoch = 0

\* Line 153 with <= and with > in place of <.
ImprovesOrEqual(valLoss, best) == valLoss <= best

ImprovesInverted(valLoss, best) == valLoss > best

\* Line 153.
Improves(valLoss, best) == valLoss < best

\* Lines 158-159 with >= warmup, and with > patience.
ShouldStopEarlyNoWarmup(e, bestEpoch, cfg) ==
  /\ cfg.earlyStoppingEpochCount > 0
  /\ e >= cfg.warmup
  /\ e - bestEpoch >= cfg.earlyStoppingEpochCount

ShouldStopEarlyLate(e, bestEpoch, cfg) ==
  /\ cfg.earlyStoppingEpochCount > 0
  /\ e > cfg.warmup
  /\ e - bestEpoch > cfg.earlyStoppingEpochCount

\* Lines 158-159, read after the validation step of the epoch.
ShouldStopEarly(e, bestEpoch, cfg) ==
  /\ cfg.earlyStoppingEpochCount > 0
  /\ e > cfg.warmup
  /\ e - bestEpoch >= cfg.earlyStoppingEpochCount

\* Lines 104-142 as a fold over the batches batchIdx..datasetsize-1: the state of
\* the optimiser after them, [weights, pending].
RECURSIVE BatchLoop(_, _, _, _, _)
BatchLoop(batchIdx, datasetsize, batchSize, w, acc) ==
  IF batchIdx >= datasetsize THEN [weights |-> w, pending |-> acc]
  ELSE IF ShouldStep(batchSize, batchIdx, datasetsize)
       THEN BatchLoop(batchIdx + 1, datasetsize, batchSize, w + 1, 0)
       ELSE BatchLoop(batchIdx + 1, datasetsize, batchSize, w, acc + 1)

\* Lines 153-156: the best-validation file after the validation of epoch e.
BestCheckpoint(valLoss, best, ckpt, w, e) ==
  IF Improves(valLoss, best) THEN <<[weights |-> w, writtenAt |-> e]>> ELSE ckpt

Configs ==
  [batchSize : BatchSizes, datasetsize : TrainSizes, epochs : 0..MaxEpochs,
   modelSaveEpoch : SaveEpochs, validationEpoch : ValidationEpochs,
   earlyStoppingEpochCount : Patiences, warmup : Warmups]

\* Runner.__init__ (lines 93-94) and the entry of train.
TrainInit ==
  /\ config \in Configs
  /\ pc = "loop"
  /\ epoch = 0
  /\ stopped = FALSE
  /\ bestValLoss = Inf
  /\ bestValLossEpoch = 0
  /\ weights = 0
  /\ pending = 0
  /\ bestCkpt = <<>>
  /\ epochCkpts = {}
  /\ valLosses = <<>>
  /\ weightsAtEnd = <<>>
  /\ ckptWrites = {}

TrainIdle ==
  /\ config = [epochs |-> 0]
  /\ pc = "idle"
  /\ epoch = 0
  /\ stopped = FALSE
  /\ bestValLoss = Inf
  /\ bestValLossEpoch = 0
  /\ weights = 0
  /\ pending = 0
  /\ bestCkpt = <<>>
  /\ epochCkpts = {}
  /\ valLosses = <<>>
  /\ weightsAtEnd = <<>>
  /\ ckptWrites = {}

\* One iteration of the loop of line 99 (lines 100-162); valLoss is what
\* validate() returns when it is called.
Epoch ==
  /\ pc = "loop"
  /\ epoch < config.epochs
  /\ \E valLoss \in LossValues :
       LET e        == epoch + 1
           after    == BatchLoop(0, config.datasetsize, config.batchSize, weights, pending)
           doVal    == ShouldValidate(e, config)
           improved == doVal /\ Improves(valLoss, bestValLoss)
           newBest  == IF improved THEN valLoss ELSE bestValLoss
           newBestEpoch == IF improved THEN e ELSE bestValLossEpoch
           newCkpt  == IF doVal
                       THEN BestCheckpoint(valLoss, bestValLoss, bestCkpt, after.weights, e)
                       ELSE bestCkpt
           stop     == ShouldStopEarly(e, newBestEpoch, config)
       IN /\ epoch' = e
          /\ weights' = after.weights
          /\ pending' = after.pending
          /\ weightsAtEnd' = Append(weightsAtEnd, after.weights)
          /\ epochCkpts' = IF ShouldSaveEpoch(e, config)
                           THEN epochCkpts \cup {e} ELSE epochCkpts
          /\ valLosses' = IF doVal THEN Append(valLosses, <<e, valLoss>>) ELSE valLosses
          /\ bestValLoss' = newBest
          /\ bestValLossEpoch' = newBestEpoch
          /\ bestCkpt' = newCkpt
          /\ ckptWrites' = IF newCkpt # bestCkpt THEN ckptWrites \cup {e} ELSE ckptWrites
          /\ stopped' = stop
          /\ pc' = IF stop THEN "done" ELSE "loop"
  /\ UNCHANGED <<config, batchVars, decodeVars, labelVars>>

\* The range of line 99 is exhausted; line 164.
LoopExit ==
  /\ pc = "loop"
  /\ epoch = config.epochs
  /\ pc' = "done"
  /\ UNCHANGED <<config, epoch, stopped, bestValLoss, bestValLossEpoch, weights,
                 pending, bestCkpt, epochCkpts, valLosses, weightsAtEnd, ckptWrites,
                 batchVars, decodeVars, labelVars>>

----------------------------------------------------------------------------
\* The batch loop of an epoch, one step per batch (lines 104-142).  What the
\* end of the epoch does (lines 144-162) touches neither the gradients nor the
\* optimiser: validate() runs no backward pass and no optimiser step.

Loaders == [batchSize : BatchSizes, datasetsize : 1..MaxBatches, epochs : {1, 2}]

NoSteps == <<>>

BatchInit ==
  /\ loader \in Loaders
  /\ bpc = "batches"
  /\ bEpoch = 1
  /\ batchId = 0
  /\ grad = {}
  /\ applied = NoSteps
  /\ stepsAfter = {}

BatchIdle ==
  /\ loader = [epochs |-> 0]
  /\ bpc = "idle"
  /\ bEpoch = 0
  /\ batchId = 0
  /\ grad = {}
  /\ applied = NoSteps
  /\ stepsAfter = {}

\* Lines 105-142 for one batch: loss.backward() adds the batch's gradient to
\* the accumulated one; a step applies all of it and zero_grad() clears it.
Batch ==
  /\ bpc = "batches"
  /\ batchId < loader.datasetsize
  /\ LET b      == <<bEpoch, batchId>>
         accum  == grad \cup {b}
         seen   == [p \in DOMAIN applied \cup {b} |->
                      IF p \in DOMAIN applied THEN applied[p] ELSE 0]
     IN IF ShouldStep(loader.batchSize, batchId, loader.datasetsize)
        THEN /\ applied' = [p \in DOMAIN seen |->
                              IF p \in accum THEN seen[p] + 1 ELSE seen[p]]
             /\ grad' = {}
             /\ stepsAfter' = stepsAfter \cup {b}
        ELSE /\ applied' = seen
             /\ grad' = accum
             /\ stepsAfter' = stepsAfter
  /\ batchId' = batchId + 1
  /\ bpc' = IF batchId + 1 = loader.datasetsize THEN "epochEnd" ELSE "batches"
  /\ UNCHANGED <<loader, bEpoch, trainVars, decodeVars, labelVars>>

\* Lines 144-162 and the next iteration of line 99: the next epoch starts with
\* the gradients as the last batch left them, or the loop ends (range
\* exhausted, or the break of line 162).
EndEpoch ==
  /\ bpc = "epochEnd"
  /\ \E stop \in BOOLEAN :
       IF stop \/ bEpoch = loader.epochs
       THEN /\ bpc' = "done"
            /\ UNCHANGED <<bEpoch, batchId>>
       ELSE /\ bpc' = "batches"
            /\ bEpoch' = bEpoch + 1
            /\ batchId' = 0
  /\ UNCHANGED <<loader, grad, applied, stepsAfter, trainVars, decodeVars, labelVars>>

----------------------------------------------------------------------------
\* Runner.greedyDecode (lines 166-182).  max_index is the result of the
\* torch.max of line 168; the encoder's decode is outside this file, so a
\* result is recorded as the index list handed to it.

\* The example of the collapse rule: one batch element, eight time steps.
ExampleColumn == <<2, 2, 5, 5, 5, 0, 7, 7>>

DecodeInputs ==
  UNION {[1..T -> [1..N -> Classes]] : T \in 1..MaxT, N \in DecodeBatch}
    \cup {[t \in 1..Len(ExampleColumn) |-> <<ExampleColumn[t]>>]}

\* predicted.shape[1] of line 169.
BatchOf(m) == Len(m[1])

\* Line 170: max_index[:, i].
RawPrediction(m, i) == [t \in 1..Len(m) |-> m[t][i]]

\* Lines 174-178 comparing with previous (line 172) instead of output[-1].
RECURSIVE CollapseVsPreviousLoop(_, _, _)
CollapseVsPreviousLoop(rest, previous, output) ==
  IF rest = <<>> THEN output
  ELSE IF Head(rest) = previous
       THEN CollapseVsPreviousLoop(Tail(rest), previous, output)
       ELSE CollapseVsPreviousLoop(Tail(rest), previous, Append(output, Head(rest)))

CollapseVsPrevious(raw) == CollapseVsPreviousLoop(Tail(raw), raw[1], <<raw[1]>>)

\* Lines 174-178 dropping one duplicate and then taking the next element unseen.
RECURSIVE CollapseSkipOneLoop(_, _)
CollapseSkipOneLoop(rest, output) ==
  IF rest = <<>> THEN output
  ELSE IF Head(rest) = output[Len(output)]
       THEN IF Tail(rest) = <<>> THEN output
            ELSE CollapseSkipOneLoop(Tail(Tail(rest)), Append(output, Head(Tail(rest))))
       ELSE CollapseSkipOneLoop(Tail(rest), Append(output, Head(rest)))

CollapseSkipOne(raw) == CollapseSkipOneLoop(Tail(raw), <<raw[1]>>)

\* Lines 174-178: the loop over raw_prediction[1:].
RECURSIVE CollapseLoop(_, _)
CollapseLoop(rest, output) ==
  IF rest = <<>> THEN output
  ELSE IF Head(rest) = output[Len(output)]
       THEN CollapseLoop(Tail(rest), output)
       ELSE CollapseLoop(Tail(rest), Append(output, Head(rest)))

\* Lines 172-178.
Collapse(raw) == CollapseLoop(Tail(raw), <<raw[1]>>)

DecodeInit ==
  /\ max_index \in DecodeInputs
  /\ dpc = "decoding"
  /\ di = 1
  /\ ll = <<>>
  /\ recollapsed = <<>>

DecodeIdle ==
  /\ max_index = <<>>
  /\ dpc = "idle"
  /\ di = 1
  /\ ll = <<>>
  /\ recollapsed = <<>>

\* One iteration of the loop of line 169 (lines 170-181).
DecodeElement ==
  /\ dpc = "decoding"
  /\ di <= BatchOf(max_index)
  /\ ll' = Append(ll, Collapse(RawPrediction(max_index, di)))
  /\ di' = di + 1
  /\ UNCHANGED <<max_index, dpc, recollapsed, trainVars, batchVars, labelVars>>

\* Line 182.
DecodeReturn ==
  /\ dpc = "decoding"
  /\ di > BatchOf(max_index)
  /\ dpc' = "returned"
  /\ UNCHANGED <<max_index, di, ll, recollapsed, trainVars, batchVars, labelVars>>

\* The collapse of lines 172-178 applied to each index list it produced.
CollapseAgain ==
  /\ dpc = "returned"
  /\ recollapsed' = [k \in 1..Len(ll) |-> Collapse(ll[k])]
  /\ dpc' = "recollapsed"
  /\ UNCHANGED <<max_index, di, ll, trainVars, batchVars, labelVars>>

----------------------------------------------------------------------------
\* The flattening of the padded label matrix into the loss target, in train
\* (lines 106-113, 127) and in validate (lines 191-215).

RECURSIVE SeqsUpTo(_, _)
SeqsUpTo(S, n) ==
  IF n = 0 THEN {<<>>}
  ELSE LET shorter == SeqsUpTo(S, n - 1)
       IN shorter \cup {Append(q, x) : q \in {r \in shorter : Len(r) = n - 1}, x \in S}

\* A batch of the loader: the width of data["transcription"] and data["t_len"],
\* which may exceed the width.
Batches ==
  [width : 1..MaxWidth,
   t_len : {q \in SeqsUpTo(0..(MaxWidth + 1), MaxRows) : Len(q) >= 1}]

\* Row i of data["transcription"]: the labels of example i, padded with 0.
Row(b, i) == [j \in 1..b.width |-> IF j <= b.t_len[i] THEN i ELSE 0]

\* row[:k] for k >= 0: a slice ends at the row's end.
Slice(row, k) == SubSeq(row, 1, Min(k, Len(row)))

\* torch.cat of the slices, lines 110-113 and 197-200.
RECURSIVE Cat(_)
Cat(parts) == IF parts = <<>> THEN <<>> ELSE Head(parts) \o Cat(Tail(parts))

\* Line 195 with min= in place of max=.
ClampBelow(len, max_label_len) == Max(len, max_label_len)

\* Line 195: torch.clamp(target_lengths, max=max_label_len), per element.
SafeTargetLength(len, max_label_len) == Min(len, max_label_len)

RECURSIVE SumSeq(_)
SumSeq(q) == IF q = <<>> THEN 0 ELSE Head(q) + SumSeq(Tail(q))

LabelInit ==
  /\ batch \in Batches
  /\ lpc = "batch"
  /\ encodedTranscription = <<>>
  /\ lossTargetLengths = <<>>

LabelIdle ==
  /\ batch = [width |-> 0]
  /\ lpc = "idle"
  /\ encodedTranscription = <<>>
  /\ lossTargetLengths = <<>>

\* Runner.train, lines 106-113 and 127.
TrainFlatten ==
  /\ lpc = "batch"
  /\ encodedTranscription' =
       Cat([i \in 1..Len(batch.t_len) |-> Slice(Row(batch, i), batch.t_len[i])])
  /\ lossTargetLengths' = batch.t_len
  /\ lpc' = "trained"
  /\ UNCHANGED <<batch, trainVars, batchVars, decodeVars>>

\* Runner.validate, lines 191-215; the assert of line 212 aborts the run.
ValidateFlatten ==
  /\ lpc = "batch"
  /\ LET safe_target_lengths ==
           [i \in 1..Len(batch.t_len) |-> SafeTargetLength(batch.t_len[i], batch.width)]
         flat ==
           Cat([i \in 1..Len(batch.t_len) |-> Slice(Row(batch, i), safe_target_lengths[i])])
     IN /\ encodedTranscription' = flat
        /\ lossTargetLengths' = safe_target_lengths
        /\ lpc' = IF Len(flat) = SumSeq(safe_target_lengths) THEN "validated" ELSE "aborted"
  /\ UNCHANGED <<batch, trainVars, batchVars, decodeVars>>

----------------------------------------------------------------------------
\* The specifications.

Init == TrainInit /\ BatchIdle /\ DecodeIdle /\ LabelIdle
Next == Epoch \/ LoopExit
Spec == Init /\ [][Next]_vars

InitBatch == TrainIdle /\ BatchInit /\ DecodeIdle /\ LabelIdle
NextBatch == Batch \/ EndEpoch
SpecBatch == InitBatch /\ [][NextBatch]_vars

InitDecode == TrainIdle /\ BatchIdle /\ DecodeInit /\ LabelIdle
NextDecode == DecodeElement \/ DecodeReturn \/ CollapseAgain
SpecDecode == InitDecode /\ [][NextDecode]_vars

InitLabels == TrainIdle /\ BatchIdle /\ DecodeIdle /\ LabelInit
NextLabels == TrainFlatten \/ ValidateFlatten
SpecLabels == InitLabels /\ [][NextLabels]_vars

----------------------------------------------------------------------------
\* What the histories say, computed without the code's own bookkeeping.

\* The least loss among the first k validate() calls; Inf when k = 0.
RECURSIVE PrefixMin(_)
PrefixMin(k) == IF k = 0 THEN Inf ELSE Min(valLosses[k][2], PrefixMin(k - 1))

\* The k-th validate() call returned less than every call before it.
StrictImprovementAt(k) == valLosses[k][2] < PrefixMin(k - 1)

\* The test of lines 158-159 on the current state.
EarlyStopCondition ==
  /\ config.earlyStoppingEpochCount > 0
  /\ epoch > config.warmup
  /\ epoch - bestValLossEpoch >= config.earlyStoppingEpochCount

\* Patience 2, warmup 0, validation every epoch; the best epoch is 4 and
\* epochs 5 and 6 bring no improvement.
EarlyStopExample ==
  /\ pc # "idle"
  /\ config.earlyStoppingEpochCount = 2
  /\ config.warmup = 0
  /\ config.validationEpoch = 1
  /\ Len(valLosses) >= 6
  /\ StrictImprovementAt(4)
  /\ ~StrictImprovementAt(5)
  /\ ~StrictImprovementAt(6)

\* C1: with patience P > 0 the epoch loop stops at the end of epoch e exactly
\* when e > warmup and e - bestValLossEpoch >= P: while the loop goes on after
\* an epoch the test is false, once it has stopped early the test is true at
\* the last epoch run, and a loop that ended otherwise ran all its epochs; in
\* the example (patience 2, warmup 0, best epoch 4, no improvement at 5 and 6)
\* the last epoch run is 6.
C1_EarlyStopExactly ==
  /\ (pc = "loop" /\ epoch >= 1) => ~EarlyStopCondition
  /\ stopped => (pc = "done" /\ EarlyStopCondition)
  /\ (pc = "done" /\ ~stopped) =>
        (epoch = config.epochs /\ (epoch >= 1 => ~EarlyStopCondition))
  /\ EarlyStopExample => (epoch = 6 /\ stopped /\ pc = "done")

C1_Witness ==
  /\ EarlyStopExample
  /\ stopped
  /\ epoch = 6
  /\ bestValLossEpoch = 4

\* The validation losses 3.0, 2.5, 2.6, 2.4 at epochs 1..4.
BestTrackingExample ==
  valLosses = <<<<1, 30>>, <<2, 25>>, <<3, 26>>, <<4, 24>>>>

\* C2: bestValLoss is the least of the validation losses returned so far
\* (Inf when validate has not run) and bestValLossEpoch is an epoch at which
\* validate returned that value (0 when none); losses 3.0, 2.5, 2.6, 2.4 at
\* epochs 1..4 end with 2.4 and 4.
C2_BestIsRunningMin ==
  /\ bestValLoss = PrefixMin(Len(valLosses))
  /\ valLosses = <<>> => bestValLossEpoch = 0
  /\ valLosses # <<>> =>
        \E k \in 1..Len(valLosses) : valLosses[k] = <<bestValLossEpoch, bestValLoss>>
  /\ BestTrackingExample => (bestValLoss = 24 /\ bestValLossEpoch = 4)

C2_Witness ==
  /\ BestTrackingExample
  /\ epoch = 4
  /\ bestValLoss = 24
  /\ bestValLossEpoch = 4

\* C8: best_val_loss.pth is written in an epoch exactly when that epoch's
\* validation returned less than every validation before it; when the file
\* exists it holds the weights of the end of epoch bestValLossEpoch, written
\* in that epoch.
C8_BestCheckpointOnImprovement ==
  /\ ckptWrites = {valLosses[k][1] : k \in {j \in 1..Len(valLosses) : StrictImprovementAt(j)}}
  /\ bestCkpt # <<>> =>
        /\ bestValLossEpoch \in 1..Len(weightsAtEnd)
        /\ bestCkpt[1].weights = weightsAtEnd[bestValLossEpoch]
        /\ bestCkpt[1].writtenAt = bestValLossEpoch

\* A validated epoch after the best one left the file alone.
C8_Witness ==
  /\ bestCkpt # <<>>
  /\ Len(valLosses) >= 2
  /\ valLosses[Len(valLosses)][1] = epoch
  /\ ~StrictImprovementAt(Len(valLosses))
  /\ bestValLossEpoch < epoch
  /\ bestCkpt[1].weights # weights
  /\ bestCkpt[1].weights = weightsAtEnd[bestValLossEpoch]

\* C10: with patience P > 0 and validation disabled, validate is never called,
\* bestValLoss stays Inf and bestValLossEpoch 0, and the loop runs exactly
\* min(epochs, max(P, warmup + 1)) epochs.
C10_NoValidationEpochCount ==
  (pc # "idle" /\ config.validationEpoch = 0 /\ config.earlyStoppingEpochCount > 0) =>
     /\ valLosses = <<>>
     /\ bestValLoss = Inf
     /\ bestValLossEpoch = 0
     /\ epoch <= Min(config.epochs, Max(config.earlyStoppingEpochCount, config.warmup + 1))
     /\ pc = "done" =>
          epoch = Min(config.epochs, Max(config.earlyStoppingEpochCount, config.warmup + 1))

\* Early stopping ended the run before any validation and before epochs ran out.
C10_Witness ==
  /\ config.validationEpoch = 0
  /\ config.earlyStoppingEpochCount > 0
  /\ pc = "done"
  /\ stopped
  /\ valLosses = <<>>
  /\ epoch = config.warmup + 1
  /\ epoch > config.earlyStoppingEpochCount
  /\ epoch < config.epochs

----------------------------------------------------------------------------
\* The batches the loop has been through.
Processed ==
  {b \in (1..bEpoch) \X (0..(loader.datasetsize - 1)) :
     b[1] < bEpoch \/ b[2] < batchId}

\* b comes before c in the order the batches are processed.
Before(b, c) == b[1] < c[1] \/ (b[1] = c[1] /\ b[2] < c[2])

\* C3: the optimiser steps, and the gradients are zeroed, after batch i exactly
\* when the batch size is not 1, or i % 5 = 4, or i is the last batch; with
\* batch size 1 and 7 batches it steps after batches 4 and 6 only.
C3_StepPolicy ==
  bpc # "idle" =>
    /\ \A b \in Processed :
         b \in stepsAfter <=>
           (loader.batchSize # 1 \/ b[2] % 5 = 4 \/ b[2] = loader.datasetsize - 1)
    /\ stepsAfter \subseteq Processed
    /\ \A b \in Processed :
         b \in grad <=> \A s \in stepsAfter : Before(s, b)
    /\ (loader.batchSize = 1 /\ loader.datasetsize = 7 /\ batchId = 7) =>
         {b[2] : b \in {c \in stepsAfter : c[1] = bEpoch}} = {4, 6}

C3_Witness ==
  /\ loader.batchSize = 1
  /\ loader.datasetsize = 7
  /\ bpc = "epochEnd"
  /\ stepsAfter = {<<1, 4>>, <<1, 6>>}
  /\ grad = {}

\* C9: the gradient of every batch is used by exactly one optimiser step, or
\* is still accumulated and used by none; at the end of an epoch, and so at
\* the start of the next, nothing is accumulated.
C9_EveryGradientOnce ==
  bpc # "idle" =>
    /\ DOMAIN applied = Processed
    /\ \A b \in Processed :
         IF b \in grad THEN applied[b] = 0 ELSE applied[b] = 1
    /\ grad \subseteq Processed
    /\ (batchId = 0 \/ bpc \in {"epochEnd", "done"}) => grad = {}

\* The second epoch of seven single-example batches has ended.
C9_Witness ==
  /\ loader.batchSize = 1
  /\ loader.datasetsize = 7
  /\ bEpoch = 2
  /\ bpc = "epochEnd"
  /\ grad = {}
  /\ \A b \in Processed : applied[b] = 1

----------------------------------------------------------------------------
\* The elements of raw that start a run of equal adjacent elements, in order.
RECURSIVE RunHeads(_, _)
RunHeads(raw, p) ==
  IF p = 0 THEN <<>>
  ELSE IF p = 1 \/ raw[p] # raw[p - 1]
       THEN Append(RunHeads(raw, p - 1), raw[p])
       ELSE RunHeads(raw, p - 1)

\* C4: the index list handed to decode for batch element k is column k of the
\* arg-max matrix with every run of equal adjacent indices replaced by one
\* occurrence: no two adjacent indices are equal, non-adjacent repeats stay;
\* there is one result per batch element, in batch order.
C4_CollapseRuns ==
  dpc # "idle" =>
    /\ Len(ll) = di - 1
    /\ dpc \in {"returned", "recollapsed"} => Len(ll) = BatchOf(max_index)
    /\ \A k \in 1..Len(ll) :
         LET raw == RawPrediction(max_index, k)
         IN /\ ll[k] = RunHeads(raw, Len(raw))
            /\ \A p \in 1..(Len(ll[k]) - 1) : ll[k][p] # ll[k][p + 1]
            /\ raw = ExampleColumn => ll[k] = <<2, 5, 0, 7>>
            /\ raw = <<2, 5, 2>> => ll[k] = <<2, 5, 2>>

\* Two batch elements with different results, the first with a merged run and
\* a kept non-adjacent repeat.
C4_Witness ==
  /\ dpc = "returned"
  /\ BatchOf(max_index) = 2
  /\ RawPrediction(max_index, 1) = <<2, 2, 5, 2>>
  /\ RawPrediction(max_index, 2) = <<0, 5, 5, 5>>
  /\ ll = <<<<2, 5, 2>>, <<0, 5>>>>

\* C5: collapsing a collapsed index list gives the same list.
C5_CollapseIdempotent ==
  dpc = "recollapsed" => recollapsed = ll

\* The first collapse shortened the example column, the second changed nothing.
C5_Witness ==
  /\ dpc = "recollapsed"
  /\ RawPrediction(max_index, 1) = ExampleColumn
  /\ ll = <<<<2, 5, 0, 7>>>>
  /\ recollapsed = ll

----------------------------------------------------------------------------
\* The sum of the label lengths, each cut to the width of the label matrix.
RECURSIVE ClampedSum(_, _)
ClampedSum(lens, width) ==
  IF lens = <<>> THEN 0
  ELSE (IF Head(lens) > width THEN width ELSE Head(lens)) + ClampedSum(Tail(lens), width)

\* C6: in validate the flat target is as long as the sum of the label lengths
\* clamped to the width of the label matrix, also for lengths above the
\* width, so the assertion of line 212 never aborts.
C6_ValidateTargetLength ==
  /\ lpc # "aborted"
  /\ lpc = "validated" =>
       /\ Len(encodedTranscription) = ClampedSum(batch.t_len, batch.width)
       /\ SumSeq(lossTargetLengths) = Len(encodedTranscription)

C6_Witness ==
  /\ lpc = "validated"
  /\ \E i \in 1..Len(batch.t_len) : batch.t_len[i] > batch.width
  /\ \E i \in 1..Len(batch.t_len) : batch.t_len[i] < batch.width
  /\ Len(encodedTranscription) = ClampedSum(batch.t_len, batch.width)

\* C7: in train the flat label tensor given to the loss is as long as the sum
\* of the label lengths t_len given to the loss with it.
C7_TrainTargetLength ==
  lpc = "trained" =>
    /\ lossTargetLengths = batch.t_len
    /\ Len(encodedTranscription) = SumSeq(batch.t_len)

====
